---- MODULE Spec2Model ----
(***************************************************************************)
(* Model of go-exif-remove-thumbnail: the JPEG segment scanner             *)
(* (ExifRemoveThumbnailBytes), the EXIF stripper (removeThumbnailFromExif) *)
(* and the file wrapper (ExifRemoveThumbnail).                             *)
(*                                                                         *)
(* Bytes are integers 0..255, buffers are sequences of bytes.  Go slices   *)
(* are 0-based and half-open; Slice(b, lo, hi) is b[lo:hi].  uint16        *)
(* arithmetic wraps modulo 2^16.  The width of Go's int depends on the     *)
(* build (32 bits on 386/arm, 64 bits on amd64/arm64): it is the state     *)
(* variable intBits, and int arithmetic on a 32-bit build wraps.           *)
(*                                                                         *)
(* The model checker's integers are 32 bits wide.  A uint32 v is held as v *)
(* when v < 2^31 and as v - 2^32 otherwise (its bit pattern read as a      *)
(* signed 32-bit number).  On a 32-bit build that number is int(v); on a   *)
(* 64-bit build a negative number stands for the int v >= 2^31 ("wide").   *)
(***************************************************************************)
EXTENDS Integers, Sequences, FiniteSets, TLC

(***************************************************************************)
(* Bounds of the input family                                              *)
(***************************************************************************)
\* segments before the tail of a generated input
MaxSegs == 2
\* 12-byte directory entries in a generated IFD0
MaxEntries == 1
\* bytes that follow IFD0 in a generated EXIF payload
MaxExtra == 2

(***************************************************************************)
(* Program constants                                                       *)
(***************************************************************************)
markerSOI == 65496
markerAPP1 == 65505
markerSOS == 65498
\* "II", the little-endian byte-order marker
orderII == 18761
\* "Exif\x00\x00"
ExifSig == <<69, 120, 105, 102, 0, 0>>
\* offset of the TIFF header in an EXIF payload
tiffPos == 6
\* a nil error string
Nil == "nil"
\* a nil error value, a nil byte slice, a byte slice
NoError == [kind |-> "nil", msg |-> ""]
NilData == [isNil |-> TRUE, bytes |-> <<>>]
Data(b) == [isNil |-> FALSE, bytes |-> b]

(***************************************************************************)
(* Byte-level helpers                                                      *)
(***************************************************************************)
Slice(b, lo, hi) == SubSeq(b, lo + 1, hi)

BigEndianUint16(b) == b[1] * 256 + b[2]
LittleEndianUint16(b) == b[2] * 256 + b[1]
\* the top byte of a uint32 as the top byte of a signed 32-bit number
TopByte(x) == IF x >= 128 THEN x - 256 ELSE x
BigEndianUint32(b) == ((TopByte(b[1]) * 256 + b[2]) * 256 + b[3]) * 256 + b[4]
LittleEndianUint32(b) == ((TopByte(b[4]) * 256 + b[3]) * 256 + b[2]) * 256 + b[1]

\* the builds' widths of int, the range of a 32-bit int
IntWidths == {32, 64}
MaxInt32 == 2147483646 + 1
MinInt32 == -2147483646 - 2

\* int(v) of a uint32 v is 2^31 or more: only on a 64-bit build
Wide(bits, u) == bits = 64 /\ u < 0

\* a + b and a - b in int: wrapping on a 32-bit build
AddInt(bits, a, b) ==
  IF bits = 32 /\ b > 0 /\ a > MaxInt32 - b
  THEN ((a - MaxInt32) + (b - 1)) + MinInt32
  ELSE IF bits = 32 /\ b < 0 /\ a < MinInt32 - b
  THEN ((a - MinInt32) + (b + 1)) + MaxInt32
  ELSE a + b
SubInt(bits, a, b) ==
  IF bits = 32 /\ b < 0 /\ a > MaxInt32 + b
  THEN ((a - MaxInt32) - (b + 1)) + MinInt32
  ELSE IF bits = 32 /\ b > 0 /\ a < MinInt32 + b
  THEN ((a - MinInt32) - (b - 1)) + MaxInt32
  ELSE a - b

\* the bounds test of a slice expression b[lo:hi]
SliceOk(b, lo, hi) == 0 <= lo /\ lo <= hi /\ hi <= Len(b)

\* binary.Write(output, binary.BigEndian, v) for a uint16 v
PutBigEndianUint16(v) == <<(v \div 256) % 256, v % 256>>

\* uint16(x): conversion to 16 bits
Uint16(x) == x % 65536

\* PutUint32(result[at:], 0) in either byte order: four zero bytes at at..at+3
PutUint32Zero(b, at) ==
  [i \in 1..Len(b) |-> IF i > at /\ i <= at + 4 THEN 0 ELSE b[i]]

(***************************************************************************)
(* removeThumbnailFromExif                                                 *)
(***************************************************************************)
\* what a call leaves behind: the contents of the caller's buffer exifData
\* after the call, and the four values returned
ExifRet(exifData, data, had, size, e) ==
  [exifData |-> exifData, data |-> data, hadThumb |-> had, thumbSize |-> size, err |-> e]

readUint16(littleEndian, b) ==
  IF littleEndian THEN LittleEndianUint16(b) ELSE BigEndianUint16(b)

\* mutant: the 32-bit fields read big-endian whatever the byte-order marker
readUint32BigEndianOnly(littleEndian, b) == BigEndianUint32(b)

readUint32(littleEndian, b) ==
  IF littleEndian THEN LittleEndianUint32(b) ELSE BigEndianUint32(b)

\* a run-time panic of a slice expression out of range
PanicMsg == "panic: slice bounds out of range"
Panic == ExifRet(<<>>, <<>>, FALSE, 0, PanicMsg)

\* the truncation "if thumbStart < len(result) { result = result[:thumbStart] }"
TruncateAt(result, thumbStart) ==
  IF thumbStart < Len(result) THEN Slice(result, 0, thumbStart) ELSE result

\* mutant: the pointer zeroed in the caller's buffer itself (result := exifData
\* without make and copy). The part of the function after the pointer was found.
\* With a wide ifd1Offset v (64-bit build) thumbStart = 6 + v is past the end
\* of any payload, nothing is cut, and thumbSize = len - 6 - v.
StripThumbnailInPlace(bits, exifData, ifd1OffsetPos, ifd1Offset) ==
  LET result == PutUint32Zero(exifData, ifd1OffsetPos)
  IN IF Wide(bits, ifd1Offset)
     THEN ExifRet(result, result, TRUE,
                  ((Len(exifData) - tiffPos) - (ifd1Offset - MinInt32)) + MinInt32, Nil)
     ELSE
       LET thumbStart == AddInt(bits, tiffPos, ifd1Offset)
           thumbSize == SubInt(bits, Len(exifData), thumbStart)
       IN IF thumbStart < Len(result) /\ ~SliceOk(result, 0, thumbStart)
          THEN Panic
          ELSE ExifRet(result, TruncateAt(result, thumbStart), TRUE, thumbSize, Nil)

\* the part of the function after the next-IFD pointer was found nonzero.
\* With a wide ifd1Offset v (64-bit build) thumbStart = 6 + v is past the end
\* of any payload, nothing is cut, and thumbSize = len - 6 - v.
StripThumbnail(bits, exifData, ifd1OffsetPos, ifd1Offset) ==
  LET result == PutUint32Zero(exifData, ifd1OffsetPos)
  IN IF Wide(bits, ifd1Offset)
     THEN ExifRet(exifData, result, TRUE,
                  ((Len(exifData) - tiffPos) - (ifd1Offset - MinInt32)) + MinInt32, Nil)
     ELSE
       LET thumbStart == AddInt(bits, tiffPos, ifd1Offset)
           thumbSize == SubInt(bits, Len(exifData), thumbStart)
       IN IF thumbStart < Len(result) /\ ~SliceOk(result, 0, thumbStart)
          THEN Panic
          ELSE ExifRet(exifData, TruncateAt(result, thumbStart), TRUE, thumbSize, Nil)

\* With a wide ifd0Offset v (64-bit build) ifd0Pos+2 = 8 + v exceeds the length
\* of any payload.
removeThumbnailFromExif(bits, exifData) ==
  IF Len(exifData) < 6 \/ Slice(exifData, 0, 6) # ExifSig
  THEN ExifRet(exifData, exifData, FALSE, 0, "invalid EXIF header")
  ELSE IF Len(exifData) < tiffPos + 8
  THEN ExifRet(exifData, exifData, FALSE, 0, "invalid TIFF header")
  ELSE
    LET byteOrder == BigEndianUint16(Slice(exifData, tiffPos, tiffPos + 2))
        littleEndian == byteOrder = orderII
        ifd0Offset == readUint32(littleEndian, Slice(exifData, tiffPos + 4, tiffPos + 8))
    IN IF Wide(bits, ifd0Offset)
       THEN ExifRet(exifData, exifData, FALSE, 0, "invalid IFD0")
       ELSE
         LET ifd0Pos == AddInt(bits, tiffPos, ifd0Offset)
         IN IF Len(exifData) < AddInt(bits, ifd0Pos, 2)
            THEN ExifRet(exifData, exifData, FALSE, 0, "invalid IFD0")
            ELSE IF ~SliceOk(exifData, ifd0Pos, AddInt(bits, ifd0Pos, 2))
            THEN Panic
            ELSE
              LET entryCount == readUint16(littleEndian,
                                           Slice(exifData, ifd0Pos, ifd0Pos + 2))
                  ifd1OffsetPos == ifd0Pos + 2 + entryCount * 12
              IN IF Len(exifData) < ifd1OffsetPos + 4
                 THEN ExifRet(exifData, exifData, FALSE, 0, "invalid IFD1 offset")
                 ELSE
                   LET ifd1Offset == readUint32(littleEndian,
                                       Slice(exifData, ifd1OffsetPos, ifd1OffsetPos + 4))
                   IN IF ifd1Offset = 0
                      THEN ExifRet(exifData, exifData, FALSE, 0, Nil)
                      ELSE StripThumbnail(bits, exifData, ifd1OffsetPos, ifd1Offset)

(***************************************************************************)
(* ExifRemoveThumbnailBytes: the locals of one call and its steps          *)
(***************************************************************************)
ZeroResult ==
  [HadThumbnail |-> FALSE, BeforeSize |-> 0, AfterSize |-> 0, ThumbnailSize |-> 0]

Error(kind, msg) == [kind |-> kind, msg |-> msg]

\* the locals at the entry of ExifRemoveThumbnailBytes, on a build with
\* ints of the given width
EntryLocals(bits) ==
  [intBits |-> bits, pc |-> "call", pos |-> 0, output |-> <<>>, marker |-> 0, segmentLength |-> 0,
   segmentData |-> <<>>, foundThumbnail |-> FALSE, thumbnailSize |-> 0,
   result |-> ZeroResult, retData |-> NilData, err |-> NoError]

\* mutant: an error return that hands back what was written so far
FailKeepsOutput(s, e) ==
  [s EXCEPT !.pc = "ret", !.retData = Data(s.output), !.err = e,
            !.result.AfterSize = Len(s.output),
            !.result.HadThumbnail = s.foundThumbnail]

\* "return nil, result, err"
Fail(s, e) == [s EXCEPT !.pc = "ret", !.retData = NilData, !.err = e]

\* bytes the reader has not consumed yet
Remaining(in, s) == Len(in) - s.pos

\* mutant: the start-of-image failure returned as a plain fmt.Errorf error
CheckSOIPlainError(in, s) ==
  LET t == [s EXCEPT !.result.BeforeSize = Len(in)]
  IN IF Len(in) < 2 \/ BigEndianUint16(Slice(in, 0, 2)) # markerSOI
     THEN Fail(t, Error("error", "not a valid JPEG file"))
     ELSE [t EXCEPT !.pc = "marker", !.pos = 2, !.output = Slice(in, 0, 2)]

\* entry: BeforeSize, the start-of-image check, the copy of the SOI marker
CheckSOI(in, s) ==
  LET t == [s EXCEPT !.result.BeforeSize = Len(in)]
  IN IF Len(in) < 2 \/ BigEndianUint16(Slice(in, 0, 2)) # markerSOI
     THEN Fail(t, Error("FormatError", "not a valid JPEG file"))
     ELSE [t EXCEPT !.pc = "marker", !.pos = 2, !.output = Slice(in, 0, 2)]

\* mutant: SOS handled like any other marker, a length-prefixed segment
CopyScanAsSegment(in, s, m) ==
  [s EXCEPT !.pc = "length", !.pos = s.pos + 2, !.marker = m]

\* the marker SOS: the marker and every remaining byte are copied, the loop ends
CopyScan(in, s, m) ==
  [s EXCEPT !.pc = "finish", !.marker = m, !.pos = Len(in),
            !.output = s.output \o PutBigEndianUint16(m)
                                \o Slice(in, s.pos + 2, Len(in))]

\* mutant: an invalid marker reported as a plain error
ReadMarkerPlainError(in, s) ==
  IF Remaining(in, s) = 0
  THEN [s EXCEPT !.pc = "finish"]
  ELSE IF Remaining(in, s) < 2
  THEN Fail([s EXCEPT !.pos = Len(in)], Error("error", "failed to read marker"))
  ELSE
    LET m == BigEndianUint16(Slice(in, s.pos, s.pos + 2))
    IN IF (m \div 256) # 255
       THEN Fail([s EXCEPT !.pos = s.pos + 2, !.marker = m],
                 Error("error", "invalid JPEG marker"))
       ELSE IF m = markerSOS
       THEN CopyScan(in, s, m)
       ELSE [s EXCEPT !.pc = "length", !.pos = s.pos + 2, !.marker = m]

\* binary.Read of the marker and the tests on it
ReadMarker(in, s) ==
  IF Remaining(in, s) = 0
  THEN [s EXCEPT !.pc = "finish"]
  ELSE IF Remaining(in, s) < 2
  THEN Fail([s EXCEPT !.pos = Len(in)], Error("error", "failed to read marker"))
  ELSE
    LET m == BigEndianUint16(Slice(in, s.pos, s.pos + 2))
    IN IF (m \div 256) # 255
       THEN Fail([s EXCEPT !.pos = s.pos + 2, !.marker = m],
                 Error("FormatError", "invalid JPEG marker"))
       ELSE IF m = markerSOS
       THEN CopyScan(in, s, m)
       ELSE [s EXCEPT !.pc = "length", !.pos = s.pos + 2, !.marker = m]

\* mutant: the length read through a reader that is not advanced
ReadLengthNoAdvance(in, s) ==
  IF Remaining(in, s) < 2
  THEN Fail([s EXCEPT !.pos = Len(in)], Error("error", "failed to read segment length"))
  ELSE [s EXCEPT !.pc = "data",
                 !.segmentLength = BigEndianUint16(Slice(in, s.pos, s.pos + 2))]

\* binary.Read of the 2-byte segment length
ReadLength(in, s) ==
  IF Remaining(in, s) < 2
  THEN Fail([s EXCEPT !.pos = Len(in)], Error("error", "failed to read segment length"))
  ELSE [s EXCEPT !.pc = "data", !.pos = s.pos + 2,
                 !.segmentLength = BigEndianUint16(Slice(in, s.pos, s.pos + 2))]

\* len(segmentData): segmentLength-2 in uint16 arithmetic
PayloadLen(segmentLength) == Uint16(segmentLength - 2 + 65536)

\* io.ReadFull of the segment's payload
ReadData(in, s) ==
  LET n == PayloadLen(s.segmentLength)
  IN IF Remaining(in, s) < n
     THEN Fail([s EXCEPT !.pos = Len(in)], Error("error", "failed to read segment data"))
     ELSE [s EXCEPT !.pc = "emit", !.pos = s.pos + n,
                    !.segmentData = Slice(in, s.pos, s.pos + n)]

\* mutant: the routing test with "at least 6 bytes"
IsExifSegmentAtLeast6(m, data) ==
  m = markerAPP1 /\ Len(data) >= 6 /\ Slice(data, 0, 6) = ExifSig

\* mutant: the routing test without the marker comparison
IsExifSegmentAnyMarker(m, data) ==
  Len(data) > 6 /\ Slice(data, 0, 6) = ExifSig

\* the test that routes a segment to removeThumbnailFromExif
IsExifSegment(m, data) ==
  m = markerAPP1 /\ Len(data) > 6 /\ Slice(data, 0, 6) = ExifSig

\* the else branch: marker, the length as read, the payload as read
CopySegment(m, segmentLength, data) ==
  PutBigEndianUint16(m) \o PutBigEndianUint16(segmentLength) \o data

\* mutant: the recomputed length without the 2 bytes of the length field
ExifSegmentPayloadLength(m, modifiedExif) ==
  PutBigEndianUint16(m) \o PutBigEndianUint16(Uint16(Len(modifiedExif)))
                        \o modifiedExif

\* the EXIF branch: marker, recomputed length, the stripped payload
ExifSegment(m, modifiedExif) ==
  PutBigEndianUint16(m) \o PutBigEndianUint16(Uint16(Len(modifiedExif) + 2))
                        \o modifiedExif

\* the end of a loop iteration, r being what removeThumbnailFromExif returns
\* for the payload (looked at only when the segment is routed to it): strip or
\* copy the segment
EmitResult(s, r) ==
  IF IsExifSegment(s.marker, s.segmentData)
  THEN IF r.err = PanicMsg
       THEN [s EXCEPT !.pc = "panic"]
       ELSE IF r.err # Nil
       THEN Fail(s, Error("FormatError", "failed to remove EXIF thumbnail: " \o r.err))
       ELSE [s EXCEPT !.pc = "marker",
                      !.segmentData = r.exifData,
                      !.foundThumbnail = IF r.hadThumb THEN TRUE ELSE @,
                      !.thumbnailSize = IF r.hadThumb THEN r.thumbSize ELSE @,
                      !.output = @ \o ExifSegment(s.marker, r.data)]
  ELSE [s EXCEPT !.pc = "marker",
                 !.output = @ \o CopySegment(s.marker, s.segmentLength, s.segmentData)]
\* the end of a loop iteration: strip or copy the segment
EmitSegment(in, s) == EmitResult(s, removeThumbnailFromExif(s.intBits, s.segmentData))

\* mutant: AfterSize taken from the input instead of the output
FinishAfterSizeOfInput(in, s) ==
  [s EXCEPT !.pc = "ret", !.retData = Data(s.output),
            !.result.AfterSize = Len(in),
            !.result.HadThumbnail = s.foundThumbnail,
            !.result.ThumbnailSize = s.thumbnailSize]

\* after the loop: the result record and the successful return
Finish(in, s) ==
  [s EXCEPT !.pc = "ret", !.retData = Data(s.output),
            !.result.AfterSize = Len(s.output),
            !.result.HadThumbnail = s.foundThumbnail,
            !.result.ThumbnailSize = s.thumbnailSize]

\* one step of the call, by its position
Step(in, s) ==
  CASE s.pc = "call" -> CheckSOI(in, s)
    [] s.pc = "marker" -> ReadMarker(in, s)
    [] s.pc = "length" -> ReadLength(in, s)
    [] s.pc = "data" -> ReadData(in, s)
    [] s.pc = "emit" -> EmitSegment(in, s)
    [] s.pc = "finish" -> Finish(in, s)
    [] OTHER -> s

RECURSIVE Drive(_, _)
Drive(in, s) == IF s.pc \in {"ret", "panic"} THEN s ELSE Drive(in, Step(in, s))

\* a whole call of ExifRemoveThumbnailBytes(in): its locals at the return (or
\* at the panic)
ExifRemoveThumbnailBytes(bits, in) == Drive(in, EntryLocals(bits))

(***************************************************************************)
(* The input family: byte sequences a caller can pass                      *)
(***************************************************************************)
Rep(n, b) == [i \in 1..n |-> b]

\* "MM", the big-endian byte-order marker, and a value that is neither
orderMM == BigEndianUint16(<<77, 77>>)
Orders == {orderII, orderMM, 0}

\* a 16-bit and a 32-bit value written in the byte order of the TIFF header
W16(order, v) ==
  IF order = orderII THEN <<v % 256, v \div 256>> ELSE <<v \div 256, v % 256>>
W32(order, v) ==
  IF order = orderII
  THEN W16(order, v % 65536) \o W16(order, (v \div 65536) % 65536)
  ELSE W16(order, (v \div 65536) % 65536) \o W16(order, v % 65536)

\* one segment: marker, length field, payload
Seg(m, len, payload) ==
  PutBigEndianUint16(m) \o PutBigEndianUint16(len) \o payload
WellFormedSeg(m, payload) == Seg(m, Len(payload) + 2, payload)

\* IFD0 offsets written in the TIFF header: inside the header, right after it,
\* after a gap
\* ... and 0x80000000, 0xFFFFFFFE as held in 32 bits
Ifd0Offsets == {0, 4, 8, 10, MinInt32, -2}

\* an EXIF payload: TIFF header naming the IFD0 offset off, IFD0 with cnt
\* entries laid out at offset off (right after the header when off points into
\* it), the next-IFD pointer next, extra bytes after IFD0
Ifd0At(off) == IF off < 8 THEN 8 ELSE off
Ifd0End(off, cnt) == Ifd0At(off) + 2 + 12 * cnt + 4
DirEntries(cnt) == [i \in 1..(12 * cnt) |-> 16 + i]
ExifPayload(order, off, cnt, next, extra) ==
  ExifSig \o PutBigEndianUint16(order) \o W16(order, 42) \o W32(order, off)
          \o Rep(Ifd0At(off) - 8, 85)
          \o W16(order, cnt) \o DirEntries(cnt) \o W32(order, next)
          \o Rep(extra, 171)

\* next-IFD pointers: none, into IFD0, right after IFD0, the payload's end, past
\* it, 0x80000000
NextChoices(off, cnt, extra) ==
  {0, 8, Ifd0End(off, cnt), Ifd0End(off, cnt) + extra, Ifd0End(off, cnt) + extra + 1,
   MinInt32}

RichExif ==
  UNION { { WellFormedSeg(markerAPP1, ExifPayload(o, x[1], x[2], n, x[3])) :
              o \in Orders, n \in NextChoices(x[1], x[2], x[3]) } :
          x \in Ifd0Offsets \X (0..MaxEntries) \X (0..MaxExtra) }

PlainSeg == WellFormedSeg(65504, <<74, 70, 73, 70>>)
EmptySeg == WellFormedSeg(65534, <<>>)
OtherApp1 == WellFormedSeg(markerAPP1, <<104, 116, 116, 112, 58, 47, 47, 0>>)
SigOnlyApp1 == WellFormedSeg(markerAPP1, ExifSig)
ExifInApp2 ==
  WellFormedSeg(65506, ExifPayload(orderMM, 8, 0, Ifd0End(8, 0), MaxExtra))
NoThumbExif == WellFormedSeg(markerAPP1, ExifPayload(orderMM, 8, MaxEntries, 0, 0))
ThumbExif ==
  WellFormedSeg(markerAPP1,
                ExifPayload(orderII, 8, MaxEntries, Ifd0End(8, MaxEntries), MaxExtra + 1))

BasicSegs ==
  {PlainSeg, EmptySeg, OtherApp1, SigOnlyApp1, ExifInApp2, NoThumbExif, ThumbExif}

ScanData == <<1, 255, 0, 255, 217>>
\* scan data that looks like an EXIF segment with a thumbnail, then like an
\* invalid marker; scan data that looks like a truncated segment
ScanLikeExif == PutBigEndianUint16(markerSOS) \o ThumbExif \o <<18, 52>>
ScanLikeTruncated == PutBigEndianUint16(markerSOS) \o Seg(65504, 9, <<1>>)
PngSignature == <<137, 80, 78, 71, 13, 10, 26, 10>>
Tails ==
  { <<>>,
    PutBigEndianUint16(markerSOS) \o ScanData,
    ScanLikeExif,
    ScanLikeTruncated,
    <<255>>,
    <<255, 217>>,
    <<18, 52, 0, 2>>,
    <<255, 224, 0>>,
    Seg(65504, 1, <<1, 2>>),
    Seg(65504, 9, <<1, 2>>),
    Seg(markerAPP1, 40, ExifSig \o <<77, 77>>),
    WellFormedSeg(markerAPP1, ExifSig \o <<77>>),
    WellFormedSeg(markerAPP1, ExifSig \o <<77, 77, 0, 42, 0, 0, 0, 8, 0>>),
    WellFormedSeg(markerAPP1, ExifSig \o <<77, 77, 0, 42, 0, 0, 0, 8, 0, 1, 0, 0>>) }

RECURSIVE Concat(_)
Concat(ss) == IF ss = <<>> THEN <<>> ELSE Head(ss) \o Concat(Tail(ss))

BasicSeqs == UNION { [1..n -> BasicSegs] : n \in 0..MaxSegs }

NotJpeg ==
  { <<>>, <<255>>, PngSignature, <<216, 255, 255, 218>>,
    <<255, 217, 255, 216>> }

\* streams with a segment whose length field is 0 or 1, followed by as many
\* bytes as a 16-bit length-2 wraps to; the last one carries an EXIF payload
\* without thumbnail
LongInputs ==
  { PutBigEndianUint16(markerSOI) \o Seg(65504, 0, Rep(65534, 7)),
    PutBigEndianUint16(markerSOI) \o Seg(65504, 1, Rep(65535, 7)),
    PutBigEndianUint16(markerSOI)
      \o Seg(markerAPP1, 0, ExifPayload(orderMM, 8, 0, 0, 65534 - Ifd0End(8, 0) - tiffPos)) }

\* the inputs of the runs whose end is checked: up to two segments, plain or
\* EXIF, before every tail, and an EXIF segment with the pointer 0x80000000
LiveSegs == {PlainSeg, ThumbExif}
\* segments before the tail of such an input
MaxLiveSegs == 2
LiveInputs ==
  NotJpeg
  \cup { PutBigEndianUint16(markerSOI) \o Concat(ss) \o t :
           ss \in UNION { [1..n -> LiveSegs] : n \in 0..MaxLiveSegs }, t \in Tails }
  \cup { PutBigEndianUint16(markerSOI)
           \o WellFormedSeg(markerAPP1, ExifPayload(orderMM, 8, 0, MinInt32, 1)) }

Inputs ==
  NotJpeg
  \cup LongInputs
  \cup { PutBigEndianUint16(markerSOI) \o Concat(ss) \o t :
           ss \in BasicSeqs, t \in Tails }
  \cup { PutBigEndianUint16(markerSOI) \o pre \o x \o post \o t :
           pre \in {<<>>, PlainSeg}, x \in RichExif,
           post \in {<<>>, PlainSeg, ThumbExif},
           t \in {<<>>, PutBigEndianUint16(markerSOS) \o ScanData} }

(***************************************************************************)
(* State                                                                   *)
(***************************************************************************)
VARIABLES
  calls,           \* concurrent use: the locals of each running invocation
  inputs,          \* concurrent use: the input buffer of each invocation
  intBits,         \* width of int on the build that runs
  api,             \* "Bytes": ExifRemoveThumbnailBytes; "File": ExifRemoveThumbnail
  fileData,        \* bytes of the file at inputPath
  inputData,       \* the input buffer of the call
  pc,              \* position of the call
  pos,             \* offset of the bytes.Reader
  output,          \* the output bytes.Buffer
  marker, segmentLength, segmentData,
  foundThumbnail, thumbnailSize,
  result,          \* the ExifRemoveThumbnailResult
  retData,         \* the byte slice returned
  err,             \* the error returned
  written          \* bytes written at outputPath, NilData when nothing was written

vars ==
  <<calls, inputs, intBits, api, fileData, inputData, pc, pos, output, marker, segmentLength, segmentData,
    foundThumbnail, thumbnailSize, result, retData, err, written>>

\* the locals of the running call as one record, and their assignment
Locals ==
  [intBits |-> intBits, pc |-> pc, pos |-> pos, output |-> output, marker |-> marker,
   segmentLength |-> segmentLength, segmentData |-> segmentData,
   foundThumbnail |-> foundThumbnail, thumbnailSize |-> thumbnailSize,
   result |-> result, retData |-> retData, err |-> err]

\* the locals after a step that leaves them as the record n (the step is
\* computed once, then assigned field by field)
SetLocals(n) ==
  \E m \in {n} :
    /\ pc' = m.pc
    /\ pos' = m.pos
    /\ output' = m.output
    /\ marker' = m.marker
    /\ segmentLength' = m.segmentLength
    /\ segmentData' = m.segmentData
    /\ foundThumbnail' = m.foundThumbnail
    /\ thumbnailSize' = m.thumbnailSize
    /\ result' = m.result
    /\ retData' = m.retData
    /\ err' = m.err

InitOn(ins) ==
  /\ intBits \in IntWidths
  /\ calls = <<>> /\ inputs = <<>>
  /\ api \in {"Bytes", "File"}
  /\ \E in \in ins :
       /\ fileData = (IF api = "File" THEN in ELSE <<>>)
       /\ inputData = (IF api = "Bytes" THEN in ELSE <<>>)
  /\ pc = (IF api = "File" THEN "readfile" ELSE "call")
  /\ pos = 0
  /\ output = <<>>
  /\ marker = 0
  /\ segmentLength = 0
  /\ segmentData = <<>>
  /\ foundThumbnail = FALSE
  /\ thumbnailSize = 0
  /\ result = ZeroResult
  /\ retData = NilData
  /\ err = NoError
  /\ written = NilData

Init == InitOn(Inputs)

(***************************************************************************)
(* Actions                                                                 *)
(***************************************************************************)
\* ExifRemoveThumbnail: os.ReadFile succeeds
ReadFileOk ==
  /\ pc = "readfile"
  /\ inputData' = fileData
  /\ pc' = "call"
  /\ UNCHANGED <<calls, inputs, intBits, api, fileData, pos, output, marker, segmentLength, segmentData,
                 foundThumbnail, thumbnailSize, result, retData, err, written>>

\* ExifRemoveThumbnail: os.ReadFile fails, the zero result and a wrapped error
ReadFileFails ==
  /\ pc = "readfile"
  /\ err' = Error("error", "failed to read input file")
  /\ result' = ZeroResult
  /\ pc' = "done"
  /\ UNCHANGED <<calls, inputs, intBits, api, fileData, inputData, pos, output, marker, segmentLength,
                 segmentData, foundThumbnail, thumbnailSize, retData, written>>

\* entry of the call: BeforeSize and the start-of-image check
DoCheckSOI ==
  /\ pc = "call"
  /\ SetLocals(CheckSOI(inputData, Locals))
  /\ UNCHANGED <<calls, inputs, intBits, api, fileData, inputData, written>>

\* top of the loop: read a marker; end of input, invalid marker or SOS end the loop
DoReadMarker ==
  /\ pc = "marker"
  /\ SetLocals(ReadMarker(inputData, Locals))
  /\ UNCHANGED <<calls, inputs, intBits, api, fileData, inputData, written>>

\* read the segment length
DoReadLength ==
  /\ pc = "length"
  /\ SetLocals(ReadLength(inputData, Locals))
  /\ UNCHANGED <<calls, inputs, intBits, api, fileData, inputData, written>>

\* read the segment payload
DoReadData ==
  /\ pc = "data"
  /\ SetLocals(ReadData(inputData, Locals))
  /\ UNCHANGED <<calls, inputs, intBits, api, fileData, inputData, written>>

\* strip an EXIF segment or copy any other one
DoEmitSegment ==
  /\ pc = "emit"
  /\ \E r \in {removeThumbnailFromExif(intBits, segmentData)} :
       SetLocals(EmitResult(Locals, r))
  /\ UNCHANGED <<calls, inputs, intBits, api, fileData, inputData, written>>

\* fill the result and return
DoFinish ==
  /\ pc = "finish"
  /\ SetLocals(Finish(inputData, Locals))
  /\ UNCHANGED <<calls, inputs, intBits, api, fileData, inputData, written>>

\* ExifRemoveThumbnail: the call failed, "return result, err"
WrapperReturnsError ==
  /\ api = "File" /\ pc = "ret" /\ err # NoError
  /\ pc' = "done"
  /\ UNCHANGED <<calls, inputs, intBits, api, fileData, inputData, pos, output, marker, segmentLength,
                 segmentData, foundThumbnail, thumbnailSize, result, retData, err,
                 written>>

\* ExifRemoveThumbnail: os.WriteFile of the returned bytes succeeds
WriteFileOk ==
  /\ api = "File" /\ pc = "ret" /\ err = NoError
  /\ written' = retData
  /\ pc' = "done"
  /\ UNCHANGED <<calls, inputs, intBits, api, fileData, inputData, pos, output, marker, segmentLength,
                 segmentData, foundThumbnail, thumbnailSize, result, retData, err>>

\* ExifRemoveThumbnail: os.WriteFile fails
WriteFileFails ==
  /\ api = "File" /\ pc = "ret" /\ err = NoError
  /\ err' = Error("error", "failed to write output file")
  /\ pc' = "done"
  /\ UNCHANGED <<calls, inputs, intBits, api, fileData, inputData, pos, output, marker, segmentLength,
                 segmentData, foundThumbnail, thumbnailSize, result, retData, written>>

Next ==
  \/ ReadFileOk
  \/ ReadFileFails
  \/ DoCheckSOI
  \/ DoReadMarker
  \/ DoReadLength
  \/ DoReadData
  \/ DoEmitSegment
  \/ DoFinish
  \/ WrapperReturnsError
  \/ WriteFileOk
  \/ WriteFileFails

Spec == Init /\ [][Next]_vars

\* the call is synchronous and nothing in it waits: a step that can be taken is
\* taken
FairSpec == InitOn(LiveInputs) /\ [][Next]_vars /\ WF_vars(Next)

(***************************************************************************)
(* Concurrent use: several invocations of ExifRemoveThumbnailBytes, each on *)
(* an input buffer of its own, run by goroutines whose steps interleave.   *)
(* The package declares no variable: all a call works on are its           *)
(* parameter and its locals.                                               *)
(***************************************************************************)
Callers == {"a", "b"}

ConcInputs ==
  { PutBigEndianUint16(markerSOI) \o ThumbExif \o PutBigEndianUint16(markerSOS) \o ScanData,
    PutBigEndianUint16(markerSOI) \o NoThumbExif \o PlainSeg,
    PutBigEndianUint16(markerSOI) \o PlainSeg \o Seg(65504, 9, <<1, 2>>),
    PutBigEndianUint16(markerSOI)
      \o WellFormedSeg(markerAPP1, ExifPayload(orderMM, 8, 0, MinInt32, 1)),
    PngSignature }

InitConc ==
  /\ intBits \in IntWidths
  /\ inputs \in [Callers -> ConcInputs]
  /\ calls = [c \in Callers |-> EntryLocals(intBits)]
  /\ api = "Bytes" /\ fileData = <<>> /\ inputData = <<>>
  /\ pc = "done" /\ pos = 0 /\ output = <<>> /\ marker = 0 /\ segmentLength = 0
  /\ segmentData = <<>> /\ foundThumbnail = FALSE /\ thumbnailSize = 0
  /\ result = ZeroResult /\ retData = NilData /\ err = NoError /\ written = NilData

\* mutant: the output buffer as a variable of the package, shared by the calls
CallStepSharedOutput(c) ==
  /\ calls[c].pc \notin {"ret", "panic"}
  /\ LET t == Step(inputs[c], calls[c])
     IN calls' = [d \in Callers |->
                    IF d = c THEN t ELSE [calls[d] EXCEPT !.output = t.output]]
  /\ UNCHANGED <<inputs, intBits, api, fileData, inputData, pc, pos, output, marker,
                 segmentLength, segmentData, foundThumbnail, thumbnailSize, result,
                 retData, err, written>>

\* invocation c takes its next step
CallStep(c) ==
  /\ calls[c].pc \notin {"ret", "panic"}
  /\ calls' = [calls EXCEPT ![c] = Step(inputs[c], @)]
  /\ UNCHANGED <<inputs, intBits, api, fileData, inputData, pc, pos, output, marker,
                 segmentLength, segmentData, foundThumbnail, thumbnailSize, result,
                 retData, err, written>>

NextConc == \E c \in Callers : CallStep(c)

SpecConc == InitConc /\ [][NextConc]_vars

(***************************************************************************)
(* Vocabulary of the properties: the segment grammar of a JPEG stream and  *)
(* the IFD0 of an EXIF payload, read from the bytes alone                  *)
(***************************************************************************)
SegRec(m, len, payload) == [marker |-> m, length |-> len, payload |-> payload]

RECURSIVE ParseFrom(_, _, _)
ParseFrom(b, p, acc) ==
  IF Len(b) - p = 0 THEN [segs |-> acc, stop |-> "eof", at |-> p]
  ELSE IF Len(b) - p < 2 THEN [segs |-> acc, stop |-> "partial marker", at |-> p]
  ELSE
    LET m == BigEndianUint16(Slice(b, p, p + 2))
    IN IF (m \div 256) # 255 THEN [segs |-> acc, stop |-> "invalid marker", at |-> p]
       ELSE IF m = markerSOS THEN [segs |-> acc, stop |-> "sos", at |-> p]
       ELSE IF Len(b) - p < 4 THEN [segs |-> acc, stop |-> "length cut", at |-> p]
       ELSE
         LET len == BigEndianUint16(Slice(b, p + 2, p + 4))
         IN IF len < 2 THEN [segs |-> acc, stop |-> "short length", at |-> p]
            ELSE IF Len(b) - (p + 4) < len - 2
            THEN [segs |-> acc, stop |-> "truncated", at |-> p]
            ELSE ParseFrom(b, p + 2 + len,
                           Append(acc, SegRec(m, len, Slice(b, p + 4, p + 2 + len))))

\* the segments of a stream up to the place where the segment structure ends
JpegParse(b) ==
  IF Len(b) < 2 \/ BigEndianUint16(Slice(b, 0, 2)) # markerSOI
  THEN [segs |-> <<>>, stop |-> "not jpeg", at |-> 0]
  ELSE ParseFrom(b, 2, <<>>)

\* IFD0 of an EXIF payload: entry count, entries, next-IFD pointer
DecodeIfd0(p) ==
  IF Len(p) < tiffPos + 8 THEN [ok |-> FALSE]
  ELSE
    LET le == Slice(p, tiffPos, tiffPos + 2) = <<73, 73>>
        ifd0Offset == readUint32(le, Slice(p, tiffPos + 4, tiffPos + 8))
        ifd0 == tiffPos + ifd0Offset
    IN IF ifd0Offset < 0 \/ ifd0Offset > Len(p) THEN [ok |-> FALSE]
       ELSE IF Len(p) < ifd0 + 2 THEN [ok |-> FALSE]
       ELSE
         LET cnt == readUint16(le, Slice(p, ifd0, ifd0 + 2))
             nextAt == ifd0 + 2 + 12 * cnt
         IN IF Len(p) < nextAt + 4 THEN [ok |-> FALSE]
            ELSE [ok |-> TRUE, count |-> cnt, nextAt |-> nextAt,
                  entries |-> Slice(p, ifd0 + 2, nextAt),
                  next |-> readUint32(le, Slice(p, nextAt, nextAt + 4))]

IsExifApp1(seg) ==
  seg.marker = markerAPP1 /\ Len(seg.payload) >= 6 /\ Slice(seg.payload, 0, 6) = ExifSig

\* an EXIF APP1 segment whose IFD0 has a nonzero next-IFD pointer
HasThumbPointer(seg) ==
  /\ IsExifApp1(seg)
  /\ DecodeIfd0(seg.payload).ok
  /\ DecodeIfd0(seg.payload).next # 0

\* the call of ExifRemoveThumbnailBytes has returned / has returned without error
BytesReturned == pc = "ret"
Succeeded == pc = "ret" /\ err = NoError

(***************************************************************************)
(* Properties                                                              *)
(***************************************************************************)
\* IFD0 of the input segment a is still complete in the output segment b, and
\* its next-IFD pointer reads 0
Ifd0Kept(a, b) ==
  /\ IsExifApp1(b)
  /\ DecodeIfd0(b.payload).ok
  /\ DecodeIfd0(b.payload).count = DecodeIfd0(a.payload).count
  /\ DecodeIfd0(b.payload).entries = DecodeIfd0(a.payload).entries
  /\ DecodeIfd0(b.payload).next = 0

\* C1: metadata preservation. After a successful call with HadThumbnail=true,
\* every EXIF segment of the input that had a nonzero next-IFD pointer is an
\* EXIF segment of the output at the same place, with IFD0 decodable, the same
\* entry count and entries, and a next-IFD pointer of 0.
C1_MetadataPreserved ==
  (Succeeded /\ result.HadThumbnail) =>
    LET a == JpegParse(inputData).segs
        b == JpegParse(retData.bytes).segs
    IN /\ Len(a) = Len(b)
       /\ \A i \in 1..Len(a) : HasThumbPointer(a[i]) => Ifd0Kept(a[i], b[i])

\* C2: strict size reduction. A successful call with HadThumbnail=true has
\* ThumbnailSize > 0 and AfterSize < BeforeSize.
C2_StrictReduction ==
  (Succeeded /\ result.HadThumbnail) =>
    (result.ThumbnailSize > 0 /\ result.AfterSize < result.BeforeSize)

\* C3: exact size accounting. A successful call with HadThumbnail=true has
\* AfterSize = BeforeSize - ThumbnailSize.
C3_ExactAccounting ==
  (Succeeded /\ result.HadThumbnail) =>
    result.AfterSize = result.BeforeSize - result.ThumbnailSize

AllSegs(b) == JpegParse(b).segs
NoThumbPointers(b) == \A i \in 1..Len(AllSegs(b)) : ~HasThumbPointer(AllSegs(b)[i])

\* C4: no-op on thumbnail-free input. A successful call on an input in which
\* no EXIF APP1 segment before start-of-scan has a nonzero next-IFD pointer
\* reports no thumbnail, size 0, returns the input bytes, AfterSize = BeforeSize.
C4_NoOpWithoutThumbnail ==
  (Succeeded /\ NoThumbPointers(inputData)) =>
    /\ ~result.HadThumbnail
    /\ result.ThumbnailSize = 0
    /\ retData = Data(inputData)
    /\ result.AfterSize = result.BeforeSize

\* a successful call on an input with an EXIF segment whose pointer is 0
C4_Witness ==
  /\ Succeeded /\ NoThumbPointers(inputData)
  /\ \E i \in 1..Len(AllSegs(inputData)) :
       /\ IsExifApp1(AllSegs(inputData)[i])
       /\ DecodeIfd0(AllSegs(inputData)[i].payload).ok
  /\ retData = Data(inputData)

\* C5: unrelated content is unchanged. After a successful call the output has
\* the same number of segments before start-of-scan, with the same markers in
\* the same order, an EXIF APP1 segment wherever the input has one, and every
\* other segment identical in marker, length field and payload.
C5_UnrelatedUnchanged ==
  Succeeded =>
    LET a == AllSegs(inputData)
        b == AllSegs(retData.bytes)
    IN /\ Len(a) = Len(b)
       /\ \A i \in 1..Len(a) :
            /\ b[i].marker = a[i].marker
            /\ IsExifApp1(a[i]) <=> IsExifApp1(b[i])
            /\ ~IsExifApp1(a[i]) => b[i] = a[i]

\* a shortened EXIF segment between two other segments
C5_Witness ==
  /\ Succeeded
  /\ result.AfterSize < result.BeforeSize
  /\ Len(AllSegs(inputData)) = 3
  /\ ~IsExifApp1(AllSegs(inputData)[1])
  /\ HasThumbPointer(AllSegs(inputData)[2])
  /\ AllSegs(retData.bytes)[3] = AllSegs(inputData)[3]
  /\ AllSegs(retData.bytes)[2] # AllSegs(inputData)[2]

\* C6: start-of-scan pass-through. Once the marker 0xFFDA was read the loop
\* is over, the reader is at the end of the input, the call does not fail, the
\* output ends with the input from the SOS marker on, verbatim, and a thumbnail
\* is only reported when an EXIF segment stands before the SOS marker.
C6_ScanPassThrough ==
  marker = markerSOS =>
    LET p == JpegParse(inputData)
        n == Len(inputData) - p.at
    IN /\ p.stop = "sos"
       /\ pc \in {"finish", "ret", "done"}
       /\ pos = Len(inputData)
       /\ pc \in {"finish", "ret"} => err = NoError
       /\ Len(output) >= n
       /\ Slice(output, Len(output) - n, Len(output)) = Slice(inputData, p.at, Len(inputData))
       /\ foundThumbnail => \E i \in 1..Len(p.segs) : IsExifApp1(p.segs[i])

\* scan data that looks like an EXIF segment and an invalid marker went through
C6_Witness ==
  /\ Succeeded /\ marker = markerSOS
  /\ Slice(inputData, JpegParse(inputData).at, Len(inputData)) = ScanLikeExif
  /\ ~result.HadThumbnail
  /\ retData = Data(inputData)

\* C7: re-decodability and idempotence. The output of a successful call is
\* processed successfully again, with HadThumbnail=false and the same bytes.
C7_Idempotent ==
  Succeeded =>
    LET again == ExifRemoveThumbnailBytes(intBits, retData.bytes)
    IN /\ again.err = NoError
       /\ ~again.result.HadThumbnail
       /\ again.retData = retData

NotJpeg2(b) == Len(b) < 2 \/ Slice(b, 0, 2) # <<255, 216>>
ReadFailed == err = Error("error", "failed to read input file")

\* C8: rejection of non-JPEG input. When the input is shorter than 2 bytes or
\* does not start with 0xFFD8, ExifRemoveThumbnailBytes returns a FormatError,
\* and so does ExifRemoveThumbnail once it has read the file.
C8_NonJpegRejected ==
  ((pc = "ret" \/ (pc = "done" /\ ~ReadFailed)) /\ NotJpeg2(inputData)) =>
    err.kind = "FormatError"

\* ExifRemoveThumbnail has returned a FormatError for a PNG file
C8_Witness ==
  /\ api = "File" /\ pc = "done"
  /\ inputData = PngSignature
  /\ err.kind = "FormatError"

\* C9: truncated segment. When the segment structure of the input ends in a
\* segment whose length field is cut off or whose declared length exceeds the
\* remaining bytes, the call fails with a FormatError.
C9_TruncatedIsFormatError ==
  (BytesReturned /\ JpegParse(inputData).stop \in {"length cut", "truncated"}) =>
    err.kind = "FormatError"

\* C10: no partial output on failure. A failing call of ExifRemoveThumbnailBytes
\* returns a nil buffer and a result with HadThumbnail=false, AfterSize=0 and
\* ThumbnailSize=0, and ExifRemoveThumbnail writes nothing when reading or
\* transforming failed.
C10_NoPartialOutput ==
  /\ (BytesReturned /\ err # NoError) =>
       /\ retData = NilData
       /\ ~result.HadThumbnail
       /\ result.AfterSize = 0
       /\ result.ThumbnailSize = 0
  /\ written # NilData => (api = "File" /\ pc = "done" /\ err = NoError /\ written = retData)

\* a call failed after a stripped EXIF segment was put into the output buffer
C10_Witness ==
  /\ BytesReturned /\ err # NoError
  /\ foundThumbnail /\ thumbnailSize > 0
  /\ Len(output) > 2
  /\ retData = NilData

(***************************************************************************)
(* Robustness, bookkeeping and the scanner's rules                         *)
(***************************************************************************)

\* C11: no crash on any input. No call reaches a slice expression whose bounds
\* are out of range: every call returns a result or an error.
C11_NoCrash == pc # "panic"

\* C12: size bookkeeping. Whenever ExifRemoveThumbnailBytes has returned, with
\* or without an error, BeforeSize is the length of the input; when it has
\* returned without an error AfterSize is the length of the returned bytes, and
\* the file wrapper writes exactly those bytes.
C12_SizeBookkeeping ==
  /\ BytesReturned => result.BeforeSize = Len(inputData)
  /\ Succeeded => result.AfterSize = Len(retData.bytes)
  /\ (api = "File" /\ pc = "done" /\ err = NoError) =>
       /\ written = retData
       /\ result.BeforeSize = Len(inputData)
       /\ result.AfterSize = Len(written.bytes)

\* a file was written that is shorter than the input
C12_Witness ==
  /\ api = "File" /\ pc = "done" /\ err = NoError
  /\ Len(written.bytes) < Len(inputData)

\* C13: input immutability. No step of a call changes the caller's input
\* buffer (it is only read: every read copies into a buffer of the call's own),
\* and the step that strips a segment leaves the scanned segment as it was read:
\* the pointer is zeroed in a copy.
C13_InputImmutable ==
  [][/\ pc # "readfile" => inputData' = inputData
     /\ pc = "emit" => (pc' = "panic" \/ segmentData' = segmentData)]_vars

\* a thumbnail was stripped from the segment just scanned, whose buffer still
\* holds the nonzero pointer
C13_Witness ==
  /\ pc = "marker" /\ foundThumbnail
  /\ IsExifSegment(marker, segmentData)
  /\ HasThumbPointer([marker |-> marker, length |-> segmentLength, payload |-> segmentData])
  /\ segmentData = Slice(inputData, pos - Len(segmentData), pos)

\* C14: concurrent use is safe. Under every interleaving of the steps of
\* invocations on inputs of their own, an invocation that has ended has ended
\* as it ends when run alone: same output bytes, result record and error (or
\* the same panic).
C14_ConcurrentAsAlone ==
  \A c \in DOMAIN calls :
    calls[c].pc \in {"ret", "panic"} =>
      calls[c] = ExifRemoveThumbnailBytes(intBits, inputs[c])

\* one invocation has returned a stripped output while another one, on a
\* different input, is in the middle of its scan
C14_Witness ==
  /\ DOMAIN calls = Callers
  /\ calls["a"].pc = "ret" /\ calls["a"].result.HadThumbnail
  /\ calls["a"].result.AfterSize < calls["a"].result.BeforeSize
  /\ calls["b"].pc = "emit" /\ Len(calls["b"].output) > 2
  /\ inputs["a"] # inputs["b"]

\* C15: recomputed segment length. The output of a successful call, read by
\* its length fields, is a sequence of whole segments up to the SOS marker or
\* the end: every length field is its payload length + 2, for a stripped EXIF
\* segment the length of the stripped payload.
C15_RecomputedLength ==
  pc = "call" =>
    LET r == ExifRemoveThumbnailBytes(intBits, inputData)
        o == JpegParse(r.output)
    IN (r.pc = "ret" /\ r.err = NoError) =>
         /\ o.stop \in {"eof", "sos"}
         /\ \A k \in 1..Len(o.segs) : o.segs[k].length = Len(o.segs[k].payload) + 2

\* the payload's IFD0 has a nonzero next-IFD pointer o, and 6 + o is not
\* strictly inside the payload (o of 2^31 and more is held as a negative number)
PointerOutside(p) ==
  /\ DecodeIfd0(p).ok
  /\ DecodeIfd0(p).next # 0
  /\ (DecodeIfd0(p).next < 0 \/ DecodeIfd0(p).next >= Len(p) - tiffPos)

\* C16: IFD1 offset bound. An EXIF segment whose next-IFD pointer is nonzero and
\* does not point strictly inside the payload is not emitted: the call fails on
\* it with a format error, and no thumbnail is reported for it.
C16_Ifd1OffsetBound ==
  (IsExifSegment(marker, segmentData) /\ PointerOutside(segmentData)) =>
    /\ pc \in {"emit", "ret", "done"}
    /\ pc \in {"ret", "done"} => (err.kind = "FormatError" /\ ~result.HadThumbnail)

\* what the stripper is to return for a payload p whose next-IFD pointer at
\* position q holds o (o of 2^31 and more is held as o - 2^32): the size
\* len(p) - (6 + o), and p with the bytes q..q+3 zeroed, cut at 6 + o
StrippedSize(p, o) ==
  IF o < 0 THEN ((Len(p) - tiffPos) - (o - MinInt32)) + MinInt32
  ELSE Len(p) - (tiffPos + o)
StrippedPayload(p, q, o) ==
  LET z == [i \in 1..Len(p) |-> IF i > q /\ i <= q + 4 THEN 0 ELSE p[i]]
  IN IF o >= 0 /\ tiffPos + o < Len(p) THEN SubSeq(z, 1, tiffPos + o) ELSE z

\* C17: stripper result when a thumbnail exists. For an EXIF segment whose IFD0
\* has a nonzero next-IFD pointer o at position q the stripper does not fail; it
\* reports a thumbnail of size len(p) - (6 + o) and the segment is emitted with
\* the payload p, bytes q..q+3 zeroed, cut at offset 6 + o.
C17_StripperResult ==
  (/\ pc \in {"marker", "panic", "ret"}
   /\ IsExifSegment(marker, segmentData)
   /\ HasThumbPointer(SegRec(marker, segmentLength, segmentData))) =>
    LET d == DecodeIfd0(segmentData)
        want == StrippedPayload(segmentData, d.nextAt, d.next)
    IN /\ pc # "panic"
       /\ ~(pc = "ret" /\ err.kind = "FormatError" /\ err.msg # "invalid JPEG marker")
       /\ (pc = "marker") =>
            /\ foundThumbnail
            /\ thumbnailSize = StrippedSize(segmentData, d.next)
            /\ Len(output) >= Len(want) + 4
            /\ Slice(output, Len(output) - Len(want), Len(output)) = want

\* what shows of the routing after the emit step, for the rule "marker 0xFFE1,
\* payload of at least minLen bytes that begins with the signature": a routed
\* segment is emitted as the stripper returned it (so the stripper did not
\* fail), every other segment is emitted as read; the call fails or crashes in
\* the stripper for a routed segment only.
RoutingShows(minLen) ==
  LET routed == /\ marker = markerAPP1
                /\ Len(segmentData) >= minLen
                /\ Len(segmentData) >= 6 /\ Slice(segmentData, 0, 6) = ExifSig
      r == removeThumbnailFromExif(intBits, segmentData)
      want == IF routed THEN r.data ELSE segmentData
  IN /\ (pc = "marker" /\ pos > 2) =>
          /\ routed => r.err = Nil
          /\ Len(output) >= Len(want) + 4
          /\ Slice(output, Len(output) - Len(want), Len(output)) = want
          /\ BigEndianUint16(Slice(output, Len(output) - Len(want) - 4,
                                   Len(output) - Len(want) - 2)) = marker
          /\ ~routed =>
               BigEndianUint16(Slice(output, Len(output) - Len(want) - 2,
                                     Len(output) - Len(want))) = segmentLength
     /\ (pc = "ret" /\ err.kind = "FormatError"
           /\ err.msg \notin {"not a valid JPEG file", "invalid JPEG marker"}) => routed
     /\ pc = "panic" => routed

\* C18: EXIF routing rule. A segment is handed to the stripper exactly when its
\* marker is 0xFFE1 and its payload is at least 6 bytes long and begins with
\* "Exif\0\0", a payload of exactly 6 bytes included; every other segment is
\* copied unmodified.
C18_ExifRouting == RoutingShows(6)

\* C18 as it holds: a segment is handed to the stripper exactly when its marker
\* is 0xFFE1 and its payload is longer than 6 bytes and begins with "Exif\0\0";
\* every other segment, an APP1 payload of exactly the 6 signature bytes
\* included, is copied unmodified.
C18_ExifRoutingAmended == RoutingShows(7)

\* an APP1 segment whose payload is the signature alone was copied
C18_Witness ==
  /\ pc = "marker" /\ pos > 2
  /\ marker = markerAPP1 /\ segmentData = ExifSig
  /\ Slice(output, Len(output) - 10, Len(output)) = SigOnlyApp1

\* C19: end of input at a marker position is normal termination. When the
\* scanner stands where a marker is expected and fewer than 2 bytes remain
\* (none or a single one), the call ends without error and returns the output
\* written so far.
C19_EofAtMarkerIsNormal ==
  (pc = "marker" /\ Len(inputData) - pos < 2) =>
    LET r == Drive(inputData, Locals)
    IN /\ r.pc = "ret"
       /\ r.err = NoError
       /\ r.retData = Data(output)

\* C20: minimum segment length. A segment the scanner has read has a length
\* field L >= 2 and a payload of L - 2 bytes; a call on a stream whose segment
\* structure ends at a length field of 0 or 1 does not succeed.
C20_MinimumSegmentLength ==
  /\ pc = "emit" =>
       (segmentLength >= 2 /\ Len(segmentData) = segmentLength - 2)
  /\ (pc = "call" /\ JpegParse(inputData).stop = "short length") =>
       LET r == ExifRemoveThumbnailBytes(intBits, inputData)
       IN ~(r.pc = "ret" /\ r.err = NoError)

(***************************************************************************)
(* Error handling, byte order, termination, several segments, the variants *)
(***************************************************************************)

\* the segment the scanner has read last is (marker, segmentData), and the
\* reader stands behind it
AtSegmentEnd ==
  /\ pc \notin {"length", "data", "emit"}
  /\ pos >= Len(segmentData) + 4
  /\ segmentData = Slice(inputData, pos - Len(segmentData), pos)
  /\ BigEndianUint16(Slice(inputData, pos - Len(segmentData) - 4,
                           pos - Len(segmentData) - 2)) = marker

\* C21: fail fast on EXIF structure errors. When the segment handed to the
\* stripper is too short for the TIFF header, or the entry count of its IFD0
\* or its next-IFD pointer does not fit in the payload, the call ends at that
\* segment with a FormatError and no output: the segment is not copied, no
\* later segment is read.
C21_FailFast ==
  (AtSegmentEnd /\ IsExifSegment(marker, segmentData) /\ ~DecodeIfd0(segmentData).ok) =>
    /\ pc \in {"ret", "done"}
    /\ err.kind = "FormatError"
    /\ retData = NilData /\ written = NilData

\* a 16-bit and a 32-bit field read in a given byte order (32-bit values of
\* 2^31 and more are held as negative numbers)
Val16(le, b) == IF le THEN b[1] + 256 * b[2] ELSE 256 * b[1] + b[2]
Val32(le, b) ==
  LET x == IF le THEN <<b[4], b[3], b[2], b[1]>> ELSE b
  IN ((TopByte(x[1]) * 256 + x[2]) * 256 + x[3]) * 256 + x[4]

\* the three fields of a payload p of at least 14 bytes, read little-endian when
\* the byte-order marker is "II" and big-endian otherwise; ok when the fields
\* lie inside the payload
FieldsByMarker(p) ==
  LET le == Slice(p, tiffPos, tiffPos + 2) = <<73, 73>>
      off == Val32(le, Slice(p, tiffPos + 4, tiffPos + 8))
  IN IF off < 0 \/ off + tiffPos + 2 > Len(p) THEN [ok |-> FALSE]
     ELSE LET cnt == Val16(le, Slice(p, tiffPos + off, tiffPos + off + 2))
              q == tiffPos + off + 2 + 12 * cnt
          IN IF q + 4 > Len(p) THEN [ok |-> FALSE]
             ELSE [ok |-> TRUE, le |-> le, off |-> off, cnt |-> cnt, q |-> q,
                   next |-> Val32(le, Slice(p, q, q + 4))]

\* C22: byte-order selection. The IFD0 offset, the entry count and the next-IFD
\* pointer are read little-endian under the marker "II" and big-endian under
\* "MM" and under any other marker value, which is not rejected: when the
\* fields read that way lie inside the payload, the stripper does not fail, it
\* reports a thumbnail exactly when the pointer read that way is nonzero, and
\* it zeroes and cuts at the positions read that way.
C22_ByteOrderSelection ==
  (/\ pc \in {"marker", "ret"}
   /\ pos > 2
   /\ IsExifSegment(marker, segmentData)
   /\ Len(segmentData) >= tiffPos + 8
   /\ FieldsByMarker(segmentData).ok
   /\ FieldsByMarker(segmentData).next >= 0) =>
    LET f == FieldsByMarker(segmentData)
        want == IF f.next = 0 THEN segmentData
                ELSE StrippedPayload(segmentData, f.q, f.next)
    IN /\ ~(pc = "ret" /\ err.kind = "FormatError" /\ err.msg # "invalid JPEG marker")
       /\ (pc = "marker") =>
            /\ f.next # 0 => (foundThumbnail /\ thumbnailSize = StrippedSize(segmentData, f.next))
            /\ Len(output) >= Len(want) + 4
            /\ Slice(output, Len(output) - Len(want), Len(output)) = want

\* a payload whose byte-order marker is neither "II" nor "MM" was stripped at
\* a pointer inside the payload, read big-endian
C22_Witness ==
  /\ pc = "marker" /\ pos > 2 /\ IsExifSegment(marker, segmentData) /\ foundThumbnail
  /\ FieldsByMarker(segmentData).ok /\ FieldsByMarker(segmentData).next > 0
  /\ Slice(segmentData, tiffPos, tiffPos + 2) = <<0, 0>>
  /\ FieldsByMarker(segmentData).next + tiffPos < Len(segmentData)

\* C23: invalid marker. When the scanner stands where a marker is expected, two
\* bytes or more remain and the first of them is not 0xFF, its next step ends
\* the call with an error of kind FormatError and no output.
C23_InvalidMarker ==
  [][(pc = "marker" /\ Len(inputData) - pos >= 2 /\ inputData[pos + 1] # 255) =>
       /\ pc' = "ret"
       /\ err'.kind = "FormatError"
       /\ retData' = NilData
       /\ result' = [ZeroResult EXCEPT !.BeforeSize = Len(inputData)]]_vars

\* the call failed on an invalid marker behind segments already written
C23_Witness ==
  /\ pc = "ret" /\ err = Error("FormatError", "invalid JPEG marker")
  /\ marker \div 256 # 255
  /\ Len(output) > 2

\* the scanner loop is over: left by break or by a return
ScanStopped == pc \in {"finish", "ret", "done"}

\* one step of the reader: it never moves back, it stays inside the input, and
\* it moves by what the step reads (2 bytes for a marker that starts a
\* segment, 2 for a length, the payload for the data, nothing when a segment is
\* emitted), so that the next read starts behind the last one
ReaderAdvances ==
  /\ pos' >= pos /\ pos' <= Len(inputData')
  /\ (pc = "marker" /\ pc' = "length") => pos' = pos + 2
  /\ (pc = "length" /\ pc' = "data") => pos' = pos + 2
  /\ (pc = "data" /\ pc' = "emit") => pos' = pos + Len(segmentData')
  /\ pc = "emit" => pos' = pos

\* C24: termination in one linear pass. On every input the scanner loop
\* eventually stops; an iteration that does not end the scan consumes the 2
\* bytes of its marker and more, and the reader never goes back over a byte.
C24_LinearPass ==
  /\ [][ReaderAdvances]_vars
  /\ <>ScanStopped

\* what holds on every build: the loop is left by break, by a return, or by
\* the crash of the stripper, and the reader advances as above
C24_LinearPassOrCrash ==
  /\ [][ReaderAdvances]_vars
  /\ <>(ScanStopped \/ pc = "panic")

\* the loop has ended at the end of an input after two iterations and more
C24_Witness ==
  /\ pc = "finish" /\ pos = Len(inputData)
  /\ Len(JpegParse(inputData).segs) >= 2
  /\ JpegParse(inputData).stop = "eof"

\* the segment is routed to removeThumbnailFromExif; what the call reports
Routed(seg) == IsExifSegment(seg.marker, seg.payload)
Report(seg) == removeThumbnailFromExif(intBits, seg.payload)
ReportsThumb(seg) == Routed(seg) /\ Report(seg).hadThumb

\* the fold of the segments' outcomes into the result of a successful call on
\* a stream whose segment structure ends at the end of input or at SOS: the
\* output has the same segments, each routed one with the payload the stripper
\* returns for it and every other one unchanged; HadThumbnail tells whether
\* some segment has a thumbnail in the sense Has; ThumbnailSize is the size
\* reported for the last of those, not a sum
SeveralSegments(Has(_)) ==
  (Succeeded /\ JpegParse(inputData).stop \in {"eof", "sos"}) =>
    LET in == JpegParse(inputData).segs
        out == JpegParse(retData.bytes).segs
        thumbs == {i \in 1..Len(in) : Has(in[i])}
        last == CHOOSE i \in thumbs : \A j \in thumbs : j <= i
    IN /\ Len(out) = Len(in)
       /\ \A i \in 1..Len(in) :
            /\ out[i].marker = in[i].marker
            /\ out[i].payload = IF Routed(in[i]) THEN Report(in[i]).data ELSE in[i].payload
       /\ result.HadThumbnail <=> thumbs # {}
       /\ result.ThumbnailSize = IF thumbs = {} THEN 0 ELSE Report(in[last]).thumbSize

\* C25: several EXIF segments. Every EXIF APP1 segment before start-of-scan
\* is stripped, not only the first; HadThumbnail is true exactly when at least
\* one of them has a nonzero IFD0 next-IFD pointer; ThumbnailSize is the size
\* reported for the last such segment.
C25_SeveralExifSegments == SeveralSegments(HasThumbPointer)

\* the same fold over what the stripper reports for each segment
C25_FoldOfReports == SeveralSegments(ReportsThumb)

\* a successful call on two EXIF segments with thumbnails of different sizes,
\* both stripped
C25_Witness ==
  /\ Succeeded
  /\ LET in == JpegParse(inputData).segs
     IN /\ Len(in) = 2
        /\ HasThumbPointer(in[1]) /\ HasThumbPointer(in[2])
        /\ Report(in[1]).thumbSize # Report(in[2]).thumbSize
        /\ Report(in[1]).thumbSize > 0 /\ Report(in[2]).thumbSize > 0
        /\ result.ThumbnailSize = Report(in[2]).thumbSize
        /\ Len(retData.bytes) = Len(inputData) - Report(in[1]).thumbSize - Report(in[2]).thumbSize

(***************************************************************************)
(* The first variant: ExifRemoveThumbnail with the scanner inline, and its *)
(* own removeThumbnailFromExif.  Its messages are Japanese text; they are  *)
(* written here by their meaning in ASCII.                                 *)
(***************************************************************************)
\* removeThumbnailFromExif of the first variant
InlineRemoveThumbnailFromExif(bits, exifData) ==
  IF Len(exifData) < 6 \/ Slice(exifData, 0, 6) # ExifSig
  THEN ExifRet(exifData, exifData, FALSE, 0, "Exif header invalid")
  ELSE
    LET p == 6
    IN IF Len(exifData) < p + 8
       THEN ExifRet(exifData, exifData, FALSE, 0, "TIFF header invalid")
       ELSE
         LET byteOrder == BigEndianUint16(Slice(exifData, p, p + 2))
             littleEndian == byteOrder = 18761
             u0 == IF littleEndian
                   THEN LittleEndianUint32(Slice(exifData, p + 4, p + 8))
                   ELSE BigEndianUint32(Slice(exifData, p + 4, p + 8))
         IN IF Wide(bits, u0) \/ Len(exifData) < AddInt(bits, AddInt(bits, p, u0), 2)
            THEN ExifRet(exifData, exifData, FALSE, 0, "IFD0 invalid")
            ELSE
              LET ifd0Pos == AddInt(bits, p, u0)
              IN IF ~SliceOk(exifData, ifd0Pos, AddInt(bits, ifd0Pos, 2))
                 THEN Panic
                 ELSE
                   LET entryCount == IF littleEndian
                                     THEN LittleEndianUint16(Slice(exifData, ifd0Pos, ifd0Pos + 2))
                                     ELSE BigEndianUint16(Slice(exifData, ifd0Pos, ifd0Pos + 2))
                       ifd1OffsetPos == ifd0Pos + 2 + entryCount * 12
                   IN IF Len(exifData) < ifd1OffsetPos + 4
                      THEN ExifRet(exifData, exifData, FALSE, 0, "IFD1 offset invalid")
                      ELSE
                        LET u1 == IF littleEndian
                                  THEN LittleEndianUint32(Slice(exifData, ifd1OffsetPos, ifd1OffsetPos + 4))
                                  ELSE BigEndianUint32(Slice(exifData, ifd1OffsetPos, ifd1OffsetPos + 4))
                            zeroed == [i \in 1..Len(exifData) |->
                                         IF i > ifd1OffsetPos /\ i <= ifd1OffsetPos + 4
                                         THEN 0 ELSE exifData[i]]
                        IN IF u1 = 0
                           THEN ExifRet(exifData, exifData, FALSE, 0, Nil)
                           ELSE IF Wide(bits, u1)
                           THEN ExifRet(exifData, zeroed, TRUE,
                                        ((Len(exifData) - p) - (u1 - MinInt32)) + MinInt32, Nil)
                           ELSE
                             LET thumbStart == AddInt(bits, p, u1)
                                 thumbSize == SubInt(bits, Len(exifData), thumbStart)
                             IN IF thumbStart >= Len(zeroed)
                                THEN ExifRet(exifData, zeroed, TRUE, thumbSize, Nil)
                                ELSE IF thumbStart < 0
                                THEN Panic
                                ELSE ExifRet(exifData, SubSeq(zeroed, 1, thumbStart), TRUE,
                                             thumbSize, Nil)

\* "return result, err" of the first variant: nothing is written
InlineFail(s, e) == [s EXCEPT !.pc = "done", !.err = e]

\* lines 43-57: BeforeSize, the start-of-image check, the copy of the SOI marker
InlineCheckSOI(in, s) ==
  LET t == [s EXCEPT !.result.BeforeSize = Len(in)]
  IN IF Len(in) < 2 \/ in[1] * 256 + in[2] # 65496
     THEN InlineFail(t, Error("FormatError", "not a JPEG file"))
     ELSE [t EXCEPT !.pc = "marker", !.pos = 2, !.output = <<in[1], in[2]>>]

\* lines 62-79: the marker, its tests, the copy of the scan
InlineReadMarker(in, s) ==
  IF Len(in) - s.pos = 0
  THEN [s EXCEPT !.pc = "write"]
  ELSE IF Len(in) - s.pos = 1
  THEN InlineFail([s EXCEPT !.pos = Len(in)], Error("error", "marker read failed"))
  ELSE
    LET m == in[s.pos + 1] * 256 + in[s.pos + 2]
    IN IF in[s.pos + 1] # 255
       THEN InlineFail([s EXCEPT !.pos = s.pos + 2, !.marker = m],
                       Error("FormatError", "invalid JPEG marker"))
       ELSE IF m = 65498
       THEN [s EXCEPT !.pc = "write", !.marker = m, !.pos = Len(in),
                      !.output = s.output \o <<in[s.pos + 1], in[s.pos + 2]>>
                                          \o SubSeq(in, s.pos + 3, Len(in))]
       ELSE [s EXCEPT !.pc = "length", !.pos = s.pos + 2, !.marker = m]

\* lines 80-84: the segment length
InlineReadLength(in, s) ==
  IF Len(in) - s.pos < 2
  THEN InlineFail([s EXCEPT !.pos = Len(in)], Error("error", "segment length read failed"))
  ELSE [s EXCEPT !.pc = "data", !.pos = s.pos + 2,
                 !.segmentLength = in[s.pos + 1] * 256 + in[s.pos + 2]]

\* lines 85-89: the payload, segmentLength-2 bytes in uint16 arithmetic
InlineReadData(in, s) ==
  LET n == (s.segmentLength + 65534) % 65536
  IN IF Len(in) - s.pos < n
     THEN InlineFail([s EXCEPT !.pos = Len(in)], Error("error", "segment data read failed"))
     ELSE [s EXCEPT !.pc = "emit", !.pos = s.pos + n,
                    !.segmentData = SubSeq(in, s.pos + 1, s.pos + n)]

\* mutant: the thumbnail sizes of the segments added up
InlineEmitResultSumsSizes(s, r) ==
  LET head == <<s.marker \div 256, s.marker % 256>>
  IN IF s.marker = 65505 /\ Len(s.segmentData) > 6 /\ SubSeq(s.segmentData, 1, 6) = ExifSig
     THEN IF r.err = PanicMsg
          THEN [s EXCEPT !.pc = "panic"]
          ELSE IF r.err # Nil
          THEN InlineFail(s, Error("FormatError", "Exif thumbnail removal failed: " \o r.err))
          ELSE
            LET n == (Len(r.data) + 2) % 65536
            IN [s EXCEPT !.pc = "marker",
                         !.segmentData = r.exifData,
                         !.foundThumbnail = IF r.hadThumb THEN TRUE ELSE @,
                         !.thumbnailSize = IF r.hadThumb THEN @ + r.thumbSize ELSE @,
                         !.output = @ \o head \o <<n \div 256, n % 256>> \o r.data]
     ELSE [s EXCEPT !.pc = "marker",
                    !.output = @ \o head
                                 \o <<s.segmentLength \div 256, s.segmentLength % 256>>
                                 \o s.segmentData]

\* lines 90-106, r being what removeThumbnailFromExif returns for the payload
\* (looked at only when the segment is routed to it): strip or copy the segment
InlineEmitResult(s, r) ==
  LET head == <<s.marker \div 256, s.marker % 256>>
  IN IF s.marker = 65505 /\ Len(s.segmentData) > 6 /\ SubSeq(s.segmentData, 1, 6) = ExifSig
     THEN IF r.err = PanicMsg
          THEN [s EXCEPT !.pc = "panic"]
          ELSE IF r.err # Nil
          THEN InlineFail(s, Error("FormatError", "Exif thumbnail removal failed: " \o r.err))
          ELSE
            LET n == (Len(r.data) + 2) % 65536
            IN [s EXCEPT !.pc = "marker",
                         !.segmentData = r.exifData,
                         !.foundThumbnail = IF r.hadThumb THEN TRUE ELSE @,
                         !.thumbnailSize = IF r.hadThumb THEN r.thumbSize ELSE @,
                         !.output = @ \o head \o <<n \div 256, n % 256>> \o r.data]
     ELSE [s EXCEPT !.pc = "marker",
                    !.output = @ \o head
                                 \o <<s.segmentLength \div 256, s.segmentLength % 256>>
                                 \o s.segmentData]

\* lines 111-114: the result record after the file was written
InlineFinish(in, s) ==
  [s EXCEPT !.pc = "done",
            !.result.AfterSize = Len(s.output),
            !.result.HadThumbnail = s.foundThumbnail,
            !.result.ThumbnailSize = s.thumbnailSize]

\* the first variant is called on a file that holds one of the inputs
InitInline ==
  /\ intBits \in IntWidths
  /\ calls = <<>> /\ inputs = <<>>
  /\ api = "Inline"
  /\ fileData \in Inputs
  /\ inputData = <<>>
  /\ pc = "readfile"
  /\ pos = 0
  /\ output = <<>>
  /\ marker = 0
  /\ segmentLength = 0
  /\ segmentData = <<>>
  /\ foundThumbnail = FALSE
  /\ thumbnailSize = 0
  /\ result = ZeroResult
  /\ retData = NilData
  /\ err = NoError
  /\ written = NilData

\* line 39: os.ReadFile succeeds
InlineReadFileOk ==
  /\ pc = "readfile"
  /\ inputData' = fileData
  /\ pc' = "call"
  /\ UNCHANGED <<calls, inputs, intBits, api, fileData, pos, output, marker, segmentLength,
                 segmentData, foundThumbnail, thumbnailSize, result, retData, err, written>>

\* lines 40-42: os.ReadFile fails, the zero result and a wrapped error
InlineReadFileFails ==
  /\ pc = "readfile"
  /\ err' = Error("error", "file read failed")
  /\ pc' = "done"
  /\ UNCHANGED <<calls, inputs, intBits, api, fileData, inputData, pos, output, marker,
                 segmentLength, segmentData, foundThumbnail, thumbnailSize, result, retData,
                 written>>

DoInlineCheckSOI ==
  /\ pc = "call"
  /\ SetLocals(InlineCheckSOI(inputData, Locals))
  /\ UNCHANGED <<calls, inputs, intBits, api, fileData, inputData, written>>

DoInlineReadMarker ==
  /\ pc = "marker"
  /\ SetLocals(InlineReadMarker(inputData, Locals))
  /\ UNCHANGED <<calls, inputs, intBits, api, fileData, inputData, written>>

DoInlineReadLength ==
  /\ pc = "length"
  /\ SetLocals(InlineReadLength(inputData, Locals))
  /\ UNCHANGED <<calls, inputs, intBits, api, fileData, inputData, written>>

DoInlineReadData ==
  /\ pc = "data"
  /\ SetLocals(InlineReadData(inputData, Locals))
  /\ UNCHANGED <<calls, inputs, intBits, api, fileData, inputData, written>>

DoInlineEmitSegment ==
  /\ pc = "emit"
  /\ \E r \in {InlineRemoveThumbnailFromExif(intBits, segmentData)} :
       SetLocals(InlineEmitResult(Locals, r))
  /\ UNCHANGED <<calls, inputs, intBits, api, fileData, inputData, written>>

\* line 108: os.WriteFile of the output buffer succeeds
InlineWriteFileOk ==
  /\ pc = "write"
  /\ written' = Data(output)
  /\ pc' = "finish"
  /\ UNCHANGED <<calls, inputs, intBits, api, fileData, inputData, pos, output, marker,
                 segmentLength, segmentData, foundThumbnail, thumbnailSize, result, retData,
                 err>>

\* lines 108-110: os.WriteFile fails, the result holds BeforeSize only
InlineWriteFileFails ==
  /\ pc = "write"
  /\ err' = Error("error", "file write failed")
  /\ pc' = "done"
  /\ UNCHANGED <<calls, inputs, intBits, api, fileData, inputData, pos, output, marker,
                 segmentLength, segmentData, foundThumbnail, thumbnailSize, result, retData,
                 written>>

DoInlineFinish ==
  /\ pc = "finish"
  /\ SetLocals(InlineFinish(inputData, Locals))
  /\ UNCHANGED <<calls, inputs, intBits, api, fileData, inputData, written>>

NextInline ==
  \/ InlineReadFileOk
  \/ InlineReadFileFails
  \/ DoInlineCheckSOI
  \/ DoInlineReadMarker
  \/ DoInlineReadLength
  \/ DoInlineReadData
  \/ DoInlineEmitSegment
  \/ InlineWriteFileOk
  \/ InlineWriteFileFails
  \/ DoInlineFinish

SpecInline == InitInline /\ [][NextInline]_vars

\* the first variant has ended (returned or crashed) after it read its file;
\* what the second variant does on the bytes of that file
InlineEnded ==
  /\ pc \in {"done", "panic"}
  /\ err # Error("error", "file read failed")
BytesOutcome == ExifRemoveThumbnailBytes(intBits, fileData)

\* the two variants end alike, unless the first ended with one of the excused
\* errors: both crash or both return, both without error or both with an
\* error of the same kind, and without error the file written holds the bytes
\* returned and the results are equal
VariantsAgree(excused) ==
  (InlineEnded /\ err \notin excused) =>
    /\ (pc = "panic") <=> (BytesOutcome.pc = "panic")
    /\ pc = "done" =>
         /\ (err = NoError) <=> (BytesOutcome.err = NoError)
         /\ (err.kind = "FormatError") <=> (BytesOutcome.err.kind = "FormatError")
         /\ err = NoError =>
              /\ written = BytesOutcome.retData
              /\ result = BytesOutcome.result

====
